---- MODULE Spec2Model ----
(***************************************************************************)
(* Client-side session lifecycle of the admin console: the storage         *)
(* adapter (utils/storage), the session manager (utils/sessionManager),    *)
(* the AuthProvider controller (contexts/AuthContext, the version with     *)
(* isInitialized and the AUTH_DISABLED flag), the interceptors of the API  *)
(* layer, the expiration banner (components/SessionExpirationWarning) and  *)
(* the route guard of a protected page.                                    *)
(*                                                                         *)
(* Spec is one browser tab and the controller alone; the other             *)
(* specifications add the banner and the guard, the outbound requests,     *)
(* a second tab, a storage left by an earlier visit, and direct calls of   *)
(* the session manager.  Every handler (effect, timer callback, UI callback,   *)
(* interceptor) runs to completion on the event loop, so it is one action. *)
(* The React state setters called by a handler are committed together by   *)
(* the render that follows it; no handler reads the controller state it    *)
(* sets, so the batch is applied in the handler's action.                  *)
(* Effects only run in the browser, so `typeof window` is never            *)
(* "undefined" in a handler; a storage whose access throws is the          *)
(* storageAvailable = FALSE environment.                                   *)
(* Optional values (null / undefined in the code) are sequences of length  *)
(* 0 or 1.  Times are milliseconds.                                        *)
(***************************************************************************)
EXTENDS Integers, Sequences, FiniteSets, TLC

\* ------------------------------------------------------------------ bounds
MaxAdvances == 2
StartTime == 1000
MaxApps == 3

\* ------------------------------------------------------- program constants
DEFAULT_SESSION_DURATION == 24 * 60 * 60 * 1000
LOGIN_EXPIRES_IN == 24 * 60 * 60
REFRESH_EXTENSION == 24 * 60 * 60
CHECK_INTERVAL_MS == 60000
EXPIRING_THRESHOLD_MINUTES == 5
HTTP_UNAUTHORIZED == 401

\* null / undefined are the empty sequence, a present value v is <<v>>.
Null == <<>>
Undefined == <<>>
Some(x) == <<x>>

\* Clock jumps between handlers: one timer period, the span from a fresh
\* 24h session to the start of its last five minutes, and the whole 24h.
TimeSteps ==
  { CHECK_INTERVAL_MS,
    DEFAULT_SESSION_DURATION - EXPIRING_THRESHOLD_MINUTES * 60 * 1000,
    DEFAULT_SESSION_DURATION }

\* Strings that take part in truthiness tests or concatenation are tuples of
\* their parts; <<>> is the empty string.
Usernames == { <<"admin">>, <<"guest">>, <<>> }
Passwords == { <<"admin123">>, <<"wrong">> }

AdminUser(username) ==
  [username |-> Some(username), email |-> Some("admin@example.com"),
   role |-> Some("admin"), id |-> Some("1")]

DevUser(username) ==
  [username |-> Some(IF username = <<>> THEN <<"dev-user">> ELSE username),
   email |-> Some("dev@example.com"), role |-> Some("admin"), id |-> Some("dev-user")]

\* "dummy-token-" + Date.now()
DummyToken(t) == <<"dummy-token-", t>>

VARIABLES
  now,               \* Date.now()
  advances,          \* number of clock jumps so far (bounded)
  store,             \* localStorage['auth_session']: Null or Some(parsed JSON)
  storageAvailable,  \* FALSE: every access to localStorage throws
  authDisabled,      \* AUTH_DISABLED, fixed at build time
  isAuthenticated, user, session, isSessionExpiring, isInitialized,
  queued,            \* state updates set by the mount effect, not yet rendered
  life,              \* "rendered" (effects pending), "committing", "mounted", "unmounted"
  intervalDep,       \* isInitialized as seen by the last run of the interval effect
  intervalCleanup,   \* the last run of the interval effect returned a cleanup
  intervals,         \* number of registered setInterval handles
  initCount,         \* runs of initializeSession in this page lifetime
  navPending,        \* window.location.href = "/login" assigned, page not yet unloaded
  lastOp, ret,       \* the last handler that ran and what it returned
  pre,               \* store, controller fields and clock when that handler started
  showWarning,       \* SessionExpirationWarning: the banner is rendered
  warnDep,           \* isSessionExpiring as seen by the last run of the banner's effect
  guardDep,          \* isAuthenticated as seen by the last run of the guard effect
  redirected,        \* the guard called router.push("/login") in this page lifetime
  lastRequest,       \* the last request handed to the network
  arg, out,          \* argument and result of the last direct session-manager call
  backend            \* the applications the backend holds, and the next id it assigns

vars == << now, advances, store, storageAvailable, authDisabled,
           isAuthenticated, user, session, isSessionExpiring, isInitialized,
           queued, life, intervalDep, intervalCleanup, intervals, initCount,
           navPending, lastOp, ret, pre,
           showWarning, warnDep, guardDep, redirected, lastRequest, arg, out,
           backend >>

ctl == << isAuthenticated, user, session, isSessionExpiring >>
env == << storageAvailable, authDisabled >>
clock == << now, advances >>
react == << queued, life, intervalDep, intervalCleanup, intervals, initCount >>
hist == << lastOp, ret, pre >>
ui == << showWarning, warnDep, guardDep, redirected >>
io == << lastRequest, arg, out, backend >>
net == << lastRequest, backend >>

\* ------------------------------------------------------------ JSON objects
\* An object is a record whose property values are optional; reading a
\* property the object does not have yields undefined.
Prop(obj, f) == IF f \in DOMAIN obj THEN obj[f] ELSE Undefined

DropUndefined(obj) ==
  LET keep == { f \in DOMAIN obj : obj[f] # Undefined }
  IN  [ f \in keep |-> obj[f] ]

\* Variant: the nested user object is serialised as {}.
JsonRoundTrip_flat(obj) ==
  LET top == DropUndefined(obj)
  IN  [ f \in DOMAIN top |-> IF f = "user" THEN Some([x \in {} |-> Undefined])
                                            ELSE top[f] ]

\* JSON.stringify drops the properties whose value is undefined, in the
\* session object and in the user object nested in it; JSON.parse gives
\* back objects with the remaining ones.
JsonRoundTrip(obj) ==
  LET top == DropUndefined(obj)
  IN  [ f \in DOMAIN top |-> IF f = "user" THEN Some(DropUndefined(top[f][1]))
                                            ELSE top[f] ]

\* ----------------------------------------------------------- utils/storage
\* The item under the key is absent (Null) or a text: Some(obj) for the
\* JSON text of obj, Some(EmptyText) for "" and Some(Garbage) for a text
\* that JSON.parse rejects.
EmptyText == [empty |-> TRUE]

Garbage == [unparsable |-> TRUE]

\* The outcome of a block of code: it returned a value or threw.
Return(v) == [raised |-> FALSE, value |-> v]

Raise == [raised |-> TRUE]

\* Variant: no catch clause, the exception reaches the caller.
TryCatch_uncaught(body, fallback) == body

\* try { return body } catch (error) { return fallback }
TryCatch(body, fallback) == IF body.raised THEN Return(fallback) ELSE body

\* JSON.parse(item)
JsonParse(item) == IF item = Garbage THEN Raise ELSE Return(Some(item))

\* setStorageItem: the storage is out of reach (storageAvailable = FALSE)
\* or setItem throws (writeOk = FALSE, quota); the item is then what it was.
setStorageItemCall(st, value, writeOk) ==
  TryCatch(IF storageAvailable /\ writeOk
             THEN Return([ok |-> TRUE, store |-> Some(JsonRoundTrip(value))])
             ELSE Raise,
           [ok |-> FALSE, store |-> st])

\* Variant: a write that throws leaves the key without a value.
setStorageItem_lossy(st, value, writeOk) ==
  IF storageAvailable /\ writeOk
    THEN [ok |-> TRUE, store |-> Some(JsonRoundTrip(value))]
    ELSE [ok |-> FALSE, store |-> Null]

setStorageItem(st, value, writeOk) == setStorageItemCall(st, value, writeOk).value

\* getStorageItem: if (!item) return null; return JSON.parse(item)
getStorageItemCall(st) ==
  TryCatch(IF ~storageAvailable THEN Raise
           ELSE IF st = Null \/ st = Some(EmptyText) THEN Return(Null)
           ELSE JsonParse(st[1]),
           Null)

getStorageItem(st) == getStorageItemCall(st).value

removeStorageItemCall(st) ==
  TryCatch(IF storageAvailable THEN Return([ok |-> TRUE, store |-> Null])
                               ELSE Raise,
           [ok |-> FALSE, store |-> st])

removeStorageItem(st) == removeStorageItemCall(st).value

\* storage.clear()
clearStorageCall(st) ==
  TryCatch(IF storageAvailable THEN Return([ok |-> TRUE, store |-> Null])
                               ELSE Raise,
           [ok |-> FALSE, store |-> st])

\* storage.getItem(key) !== null
hasStorageItemCall(st) ==
  TryCatch(IF storageAvailable THEN Return(st # Null) ELSE Raise, FALSE)

\* setItem and removeItem of a test key: the item under the key stays.
isStorageAvailableCall(writeOk) ==
  TryCatch(IF storageAvailable /\ writeOk THEN Return(TRUE) ELSE Raise, FALSE)

\* ---------------------------------------------------- utils/sessionManager
\* expiresIn ? ... : ...   (undefined and 0 are falsy)
Truthy(opt) == opt # Undefined /\ opt[1] # 0

\* Variant: expiresIn taken as milliseconds.
createSession_seconds(token, u, expiresIn, refreshToken, t) ==
  LET duration == IF Truthy(expiresIn) THEN expiresIn[1]
                                       ELSE DEFAULT_SESSION_DURATION
  IN  [token |-> Some(token), user |-> Some(u), issuedAt |-> Some(t),
       expiresAt |-> Some(t + duration), refreshToken |-> refreshToken]

\* Variant: expiresIn ?? DEFAULT_SESSION_DURATION (0 counts as supplied).
createSession_nullish(token, u, expiresIn, refreshToken, t) ==
  LET duration == IF expiresIn # Undefined THEN expiresIn[1] * 1000
                                           ELSE DEFAULT_SESSION_DURATION
  IN  [token |-> Some(token), user |-> Some(u), issuedAt |-> Some(t),
       expiresAt |-> Some(t + duration), refreshToken |-> refreshToken]

createSession(token, u, expiresIn, refreshToken, t) ==
  LET duration == IF Truthy(expiresIn) THEN expiresIn[1] * 1000
                                       ELSE DEFAULT_SESSION_DURATION
  IN  [token |-> Some(token), user |-> Some(u), issuedAt |-> Some(t),
       expiresAt |-> Some(t + duration), refreshToken |-> refreshToken]

saveSession(st, s, writeOk) == setStorageItem(st, s, writeOk)

getSession(st) == getStorageItem(st)

clearSession(st) == removeStorageItem(st)

\* Variant: Date.now() > session.expiresAt.
isSessionExpired_strict(s, t) ==
  LET e == Prop(s, "expiresAt") IN e # Undefined /\ t > e[1]

\* Date.now() >= session.expiresAt   (false when expiresAt is undefined)
isSessionExpired(s, t) ==
  LET e == Prop(s, "expiresAt") IN e # Undefined /\ t >= e[1]

isSessionValid(opt, t) ==
  IF opt = Null THEN FALSE
  ELSE IF Prop(opt[1], "token") \in {Undefined, Some(<<>>)}
          \/ Prop(opt[1], "user") = Undefined THEN FALSE
  ELSE ~isSessionExpired(opt[1], t)

\* Variant: no auto-cleanup of the expired record.
getSessionData_noCleanup(st, t) ==
  LET s == getSession(st)
  IN  IF s = Null
        THEN [session |-> Null, isValid |-> FALSE, isExpired |-> FALSE, store |-> st]
        ELSE LET expired == isSessionExpired(s[1], t)
             IN  [session |-> IF expired THEN Null ELSE s,
                  isValid |-> ~expired,
                  isExpired |-> expired,
                  store |-> st]

\* Variant: an expired record is cleaned up but reported like an absent one.
getSessionData_noExpiredFlag(st, t) ==
  LET s == getSession(st)
  IN  IF s = Null
        THEN [session |-> Null, isValid |-> FALSE, isExpired |-> FALSE, store |-> st]
        ELSE LET expired == isSessionExpired(s[1], t)
             IN  [session |-> IF expired THEN Null ELSE s,
                  isValid |-> ~expired,
                  isExpired |-> FALSE,
                  store |-> IF expired THEN clearSession(st).store ELSE st]

getSessionData(st, t) ==
  LET s == getSession(st)
  IN  IF s = Null
        THEN [session |-> Null, isValid |-> FALSE, isExpired |-> FALSE, store |-> st]
        ELSE LET expired == isSessionExpired(s[1], t)
             IN  [session |-> IF expired THEN Null ELSE s,
                  isValid |-> ~expired,
                  isExpired |-> expired,
                  store |-> IF expired THEN clearSession(st).store ELSE st]

\* Variant: an expired record is extended like a valid one.
extendSession_revives(st, additionalTime, t, writeOk) ==
  LET s == getSession(st)
  IN  IF s = Null
        THEN [ok |-> FALSE, store |-> st]
        ELSE LET extension == IF Truthy(additionalTime)
                                THEN additionalTime[1] * 1000
                                ELSE DEFAULT_SESSION_DURATION
                 s2 == [s[1] EXCEPT !.expiresAt = Some(t + extension)]
             IN  saveSession(st, s2, writeOk)

\* Variant: expiresAt += extension.
extendSession_additive(st, additionalTime, t, writeOk) ==
  LET s == getSession(st)
  IN  IF s = Null \/ isSessionExpired(s[1], t)
        THEN [ok |-> FALSE, store |-> st]
        ELSE LET extension == IF Truthy(additionalTime)
                                THEN additionalTime[1] * 1000
                                ELSE DEFAULT_SESSION_DURATION
                 s2 == [s[1] EXCEPT !.expiresAt = Some(Prop(s[1], "expiresAt")[1] + extension)]
             IN  saveSession(st, s2, writeOk)

extendSession(st, additionalTime, t, writeOk) ==
  LET s == getSession(st)
  IN  IF s = Null \/ isSessionExpired(s[1], t)
        THEN [ok |-> FALSE, store |-> st]
        ELSE LET extension == IF Truthy(additionalTime)
                                THEN additionalTime[1] * 1000
                                ELSE DEFAULT_SESSION_DURATION
                 s2 == [s[1] EXCEPT !.expiresAt = Some(t + extension)]
             IN  saveSession(st, s2, writeOk)

\* session?.token || null   (no expiry check)
getSessionToken(st) ==
  LET s == getSession(st)
  IN  IF s = Null THEN Null
      ELSE IF Prop(s[1], "token") \in {Undefined, Some(<<>>)} THEN Null
      ELSE Prop(s[1], "token")

\* Variant: expiresAt - now, negative after the expiry.
getSessionTimeRemaining_signed(st, t) ==
  LET s == getSession(st)
  IN  IF s = Null \/ Prop(s[1], "expiresAt") = Undefined THEN 0
      ELSE Prop(s[1], "expiresAt")[1] - t

getSessionTimeRemaining(st, t) ==
  LET s == getSession(st)
  IN  IF s = Null \/ Prop(s[1], "expiresAt") = Undefined THEN 0
      ELSE LET remaining == Prop(s[1], "expiresAt")[1] - t
           IN  IF remaining > 0 THEN remaining ELSE 0

\* Variant: remaining < threshold.
isSessionExpiringSoon_strict(st, thresholdMinutes, t) ==
  LET remaining == getSessionTimeRemaining(st, t)
      threshold == thresholdMinutes * 60 * 1000
  IN  remaining > 0 /\ remaining < threshold

isSessionExpiringSoon(st, thresholdMinutes, t) ==
  LET remaining == getSessionTimeRemaining(st, t)
      threshold == thresholdMinutes * 60 * 1000
  IN  remaining > 0 /\ remaining <= threshold

\* { ...a, ...b }: the properties of b win, the others are those of a.
Spread(a, b) ==
  [ f \in DOMAIN a \cup DOMAIN b |-> IF f \in DOMAIN b THEN b[f] ELSE a[f] ]

\* obj.f = v
SetProp(obj, f, v) ==
  [ g \in DOMAIN obj \cup {f} |-> IF g = f THEN v ELSE obj[g] ]

\* Variant: the partial user replaces the stored user.
updateSessionUser_replaces(st, partial, t, writeOk) ==
  LET s == getSession(st)
  IN  IF s = Null \/ isSessionExpired(s[1], t)
        THEN [ok |-> FALSE, store |-> st]
        ELSE saveSession(st, SetProp(s[1], "user", Some(partial)), writeOk)

\* session.user = { ...session.user, ...user }; saveSession(session)
updateSessionUser(st, partial, t, writeOk) ==
  LET s == getSession(st)
  IN  IF s = Null \/ isSessionExpired(s[1], t)
        THEN [ok |-> FALSE, store |-> st]
        ELSE LET old == IF Prop(s[1], "user") = Undefined
                          THEN [x \in {} |-> Undefined]
                          ELSE Prop(s[1], "user")[1]
             IN  saveSession(st, SetProp(s[1], "user", Some(Spread(old, partial))),
                             writeOk)

\* session?.user || null   (no expiry check)
getSessionUser(st) ==
  LET s == getSession(st)
  IN  IF s = Null THEN Null
      ELSE IF Prop(s[1], "user") = Undefined THEN Null
      ELSE Prop(s[1], "user")

\* ------------------------------------------------------------------- Init
\* The first render of a page load that finds st in the storage: useState
\* initial values, no effect has run yet.
Loaded(st) ==
  /\ now = StartTime
  /\ advances = 0
  /\ store = st
  /\ storageAvailable \in BOOLEAN
  /\ authDisabled \in BOOLEAN
  /\ isAuthenticated = FALSE
  /\ user = Null
  /\ session = Null
  /\ isSessionExpiring = FALSE
  /\ isInitialized = FALSE
  /\ queued = Null
  /\ life = "rendered"
  /\ intervalDep = FALSE
  /\ intervalCleanup = FALSE
  /\ intervals = 0
  /\ initCount = 0
  /\ navPending = FALSE
  /\ lastOp = "none"
  /\ ret = "void"
  /\ pre = [store |-> st, isAuthenticated |-> FALSE, user |-> Null,
            session |-> Null, isSessionExpiring |-> FALSE, at |-> StartTime]
  /\ showWarning = FALSE
  /\ warnDep = FALSE
  /\ guardDep = Null
  /\ redirected = FALSE
  /\ lastRequest = Null
  /\ backend = [apps |-> {}, nextId |-> 1]
  /\ arg = Null
  /\ out = Null

\* The first visit: the origin's storage is empty.
Init == Loaded(Null)

\* A later visit: the storage holds what a login of an earlier visit left,
\* already expired, in its last minute, or one minute old.
EarlierLogins ==
  { StartTime - DEFAULT_SESSION_DURATION,
    StartTime - DEFAULT_SESSION_DURATION + CHECK_INTERVAL_MS,
    StartTime - CHECK_INTERVAL_MS }

LeftBehind(t0) ==
  JsonRoundTrip(createSession(DummyToken(t0), AdminUser(<<"admin">>),
                              Some(LOGIN_EXPIRES_IN), Undefined, t0))

ReturnInit ==
  \E st \in {Null} \cup { Some(LeftBehind(t0)) : t0 \in EarlierLogins } :
    /\ Loaded(st)
    /\ st # Null => storageAvailable

Snapshot ==
  [store |-> store, isAuthenticated |-> isAuthenticated, user |-> user,
   session |-> session, isSessionExpiring |-> isSessionExpiring, at |-> now]

Called(op, r) ==
  /\ lastOp' = op
  /\ ret' = r
  /\ pre' = Snapshot

\* ------------------------------------------------------------ environment
Advance(d) ==
  /\ advances < MaxAdvances
  /\ life # "committing"
  /\ now' = now + d
  /\ advances' = advances + 1
  /\ UNCHANGED << store, env, ctl, isInitialized, react, navPending, hist, ui, io >>

\* -------------------------------------------------- contexts/AuthContext
\* Variant: the expiring-soon flag is not reset.
handleLogout_keepsFlag(st) ==
  [store |-> clearSession(st).store,
   isAuthenticated |-> FALSE, user |-> Null, session |-> Null,
   isSessionExpiring |-> isSessionExpiring]

\* Variant: the persisted record is not removed.
handleLogout_keepsRecord(st) ==
  [store |-> st,
   isAuthenticated |-> FALSE, user |-> Null, session |-> Null,
   isSessionExpiring |-> FALSE]

\* handleLogout as a state transformer; used by logout, initializeSession
\* and the interval callback.
handleLogout(st) ==
  [store |-> clearSession(st).store,
   isAuthenticated |-> FALSE, user |-> Null, session |-> Null,
   isSessionExpiring |-> FALSE]

\* Variant: no bypass branch.
initializeSession_noBypass(st, t) ==
  LET cur == [isAuthenticated |-> isAuthenticated, user |-> user, session |-> session,
              isSessionExpiring |-> isSessionExpiring, isInitialized |-> isInitialized]
      sd == getSessionData(st, t)
  IN  IF sd.isValid /\ sd.session # Null
        THEN [store |-> sd.store,
              set |-> [cur EXCEPT !.isAuthenticated = TRUE,
                                  !.user = Prop(sd.session[1], "user"),
                                  !.session = sd.session,
                                  !.isInitialized = TRUE]]
        ELSE IF sd.isExpired
        THEN LET lo == handleLogout(sd.store)
             IN  [store |-> lo.store,
                  set |-> [isAuthenticated |-> lo.isAuthenticated,
                           user |-> lo.user, session |-> lo.session,
                           isSessionExpiring |-> lo.isSessionExpiring,
                           isInitialized |-> TRUE]]
        ELSE [store |-> sd.store,
              set |-> [cur EXCEPT !.isInitialized = TRUE]]

\* initializeSession: the new store and the state updates it requests.
initializeSession(st, t) ==
  LET cur == [isAuthenticated |-> isAuthenticated, user |-> user, session |-> session,
              isSessionExpiring |-> isSessionExpiring, isInitialized |-> isInitialized]
  IN  IF authDisabled
        THEN [store |-> st,
              set |-> [cur EXCEPT !.isAuthenticated = TRUE,
                                  !.user = Some(DevUser(<<>>)),
                                  !.isInitialized = TRUE]]
        ELSE LET sd == getSessionData(st, t)
             IN  IF sd.isValid /\ sd.session # Null
                   THEN [store |-> sd.store,
                         set |-> [cur EXCEPT !.isAuthenticated = TRUE,
                                             !.user = Prop(sd.session[1], "user"),
                                             !.session = sd.session,
                                             !.isInitialized = TRUE]]
                   ELSE IF sd.isExpired
                   THEN LET lo == handleLogout(sd.store)
                        IN  [store |-> lo.store,
                             set |-> [isAuthenticated |-> lo.isAuthenticated,
                                      user |-> lo.user, session |-> lo.session,
                                      isSessionExpiring |-> lo.isSessionExpiring,
                                      isInitialized |-> TRUE]]
                   ELSE [store |-> sd.store,
                         set |-> [cur EXCEPT !.isInitialized = TRUE]]

\* Variant: the effect does not return early while isInitialized is false.
intervalEffect_noGuard(initialized, n) == n + 1

\* Body of the interval effect: number of registered intervals after it ran
\* with the given isInitialized.
intervalEffect(initialized, n) == IF ~initialized THEN n ELSE n + 1

\* Variant: no dependency array, the effect is due in every commit.
MountEffectDue_everyCommit == life \in {"rendered", "mounted"}

\* useEffect(..., []): due in the first commit only.
MountEffectDue == life = "rendered"

\* First commit: the mount effect runs initializeSession, then the interval
\* effect runs with the isInitialized of the first render.  The setState
\* calls of initializeSession are rendered by the commit that follows.
Mount ==
  /\ MountEffectDue
  /\ LET r == initializeSession(store, now)
     IN  /\ store' = r.store
         /\ queued' = Some(r.set)
  /\ initCount' = initCount + 1
  /\ intervals' = intervalEffect(isInitialized, intervals)
  /\ intervalCleanup' = (intervalEffect(isInitialized, intervals) > intervals)
  /\ intervalDep' = isInitialized
  /\ life' = "committing"
  /\ Called("initialize", "void")
  /\ UNCHANGED << clock, env, ctl, isInitialized, navPending, ui, io >>

Render ==
  /\ life = "committing"
  /\ queued # Null
  /\ isAuthenticated' = queued[1].isAuthenticated
  /\ user' = queued[1].user
  /\ session' = queued[1].session
  /\ isSessionExpiring' = queued[1].isSessionExpiring
  /\ isInitialized' = queued[1].isInitialized
  /\ queued' = Null
  /\ life' = "mounted"
  /\ UNCHANGED << clock, store, env, intervalDep, intervalCleanup, intervals,
                  initCount, navPending, hist, ui, io >>

\* The interval effect, re-run after the commit in which isInitialized
\* changed: cleanup of the previous run, then the effect body.
IntervalEffect ==
  /\ life = "mounted"
  /\ isInitialized # intervalDep
  /\ intervalDep' = isInitialized
  /\ LET afterCleanup == IF intervalCleanup THEN intervals - 1 ELSE intervals
     IN  /\ intervals' = intervalEffect(isInitialized, afterCleanup)
         /\ intervalCleanup' = (intervalEffect(isInitialized, afterCleanup) > afterCleanup)
  /\ UNCHANGED << clock, store, env, ctl, isInitialized, queued, life, initCount,
                  navPending, hist, ui, io >>

\* The setInterval callback: it runs as long as an interval is registered.
Tick ==
  /\ intervals > 0
  /\ Called("tick", "void")
  /\ LET sd == getSessionData(store, now)
     IN  IF sd.isExpired
           THEN LET lo == handleLogout(sd.store)
                IN  /\ store' = lo.store
                    /\ isAuthenticated' = lo.isAuthenticated
                    /\ user' = lo.user
                    /\ session' = lo.session
                    /\ isSessionExpiring' = lo.isSessionExpiring
           ELSE IF sd.isValid
           THEN /\ isSessionExpiring' =
                     isSessionExpiringSoon(sd.store, EXPIRING_THRESHOLD_MINUTES, now)
                /\ store' = sd.store
                /\ UNCHANGED << isAuthenticated, user, session >>
           ELSE /\ store' = sd.store
                /\ UNCHANGED ctl
  /\ UNCHANGED << clock, env, isInitialized, react, navPending, ui, io >>

\* Variant: teardown without the cleanup of the interval effect.
Unmount_leaksInterval ==
  /\ life = "mounted"
  /\ life' = "unmounted"
  /\ UNCHANGED << clock, store, env, ctl, isInitialized, queued, intervalDep,
                  intervalCleanup, intervals, initCount, navPending, hist, ui, io >>

\* Effect cleanup when the provider is torn down.
Unmount ==
  /\ life = "mounted"
  /\ life' = "unmounted"
  /\ intervals' = IF intervalCleanup THEN intervals - 1 ELSE intervals
  /\ intervalCleanup' = FALSE
  /\ UNCHANGED << clock, store, env, ctl, isInitialized, queued, intervalDep,
                  initCount, navPending, hist, ui, io >>

login(username, password, writeOk) ==
  /\ life = "mounted"
  /\ IF authDisabled
       THEN /\ isAuthenticated' = TRUE
            /\ user' = Some(DevUser(username))
            /\ Called("login", "true")
            /\ UNCHANGED << store, session, isSessionExpiring >>
       ELSE IF username = <<"admin">> /\ password = <<"admin123">>
       THEN LET userData == AdminUser(username)
                newSession == createSession(DummyToken(now), userData,
                                            Some(LOGIN_EXPIRES_IN), Undefined, now)
                saved == saveSession(store, newSession, writeOk)
            IN  IF saved.ok
                  THEN /\ store' = saved.store
                       /\ isAuthenticated' = TRUE
                       /\ user' = Some(userData)
                       /\ session' = Some(newSession)
                       /\ isSessionExpiring' = FALSE
                       /\ Called("login", "true")
                  ELSE /\ store' = saved.store
                       /\ Called("login", "false")
                       /\ UNCHANGED ctl
       ELSE /\ Called("login", "false")
            /\ UNCHANGED << store, ctl >>
  /\ UNCHANGED << clock, env, isInitialized, react, navPending, ui, io >>

logout ==
  /\ life = "mounted"
  /\ Called("logout", "void")
  /\ LET lo == handleLogout(store)
     IN  /\ store' = lo.store
         /\ isAuthenticated' = lo.isAuthenticated
         /\ user' = lo.user
         /\ session' = lo.session
         /\ isSessionExpiring' = lo.isSessionExpiring
  /\ UNCHANGED << clock, env, isInitialized, react, navPending, ui, io >>

\* refreshSession of the controller; its callers add what they do with the
\* result.
refreshSession(writeOk) ==
  /\ life = "mounted"
  /\ LET extended == extendSession(store, Some(REFRESH_EXTENSION), now, writeOk)
         sd == getSessionData(extended.store, now)
     IN  IF extended.ok
           THEN /\ store' = sd.store
                /\ IF sd.isValid /\ sd.session # Null
                     THEN /\ session' = sd.session
                          /\ isSessionExpiring' = FALSE
                          /\ Called("refresh", "true")
                          /\ UNCHANGED << isAuthenticated, user >>
                     ELSE /\ Called("refresh", "false")
                          /\ UNCHANGED ctl
           ELSE /\ store' = extended.store
                /\ Called("refresh", "false")
                /\ UNCHANGED ctl
  /\ UNCHANGED << clock, env, isInitialized, react, navPending >>

\* A caller that only takes the result.
Refresh(writeOk) ==
  /\ refreshSession(writeOk)
  /\ UNCHANGED << ui, io >>

\* ------------------------------------------------------------- API layer
\* The exported functions of the API layer.
ApiFunctions ==
  { "testConnection", "getApplications", "createApplication", "createApiKey",
    "requestNotification", "updateApplication", "deleteApplication",
    "getNotifications", "getApplicationApiKeys", "deleteApiKey" }

\* testConnection calls fetch; the others go through the axios instances
\* api / apiRequestor.
UsesAxios(fn) == fn # "testConnection"

\* Request interceptor of api and apiRequestor: the Authorization header it
\* leaves on the request.
requestInterceptor(st) ==
  LET token == getSessionToken(st)
  IN  IF token # Null THEN Some(<<"Bearer ", token[1]>>) ELSE Undefined

\* One exported function sends its (first) request.
ApiRequest(fn) ==
  /\ life = "mounted"
  /\ lastRequest' = Some([fn |-> fn,
                          Authorization |-> IF UsesAxios(fn) THEN requestInterceptor(store)
                                                             ELSE Undefined])
  /\ Called("request", "void")
  /\ UNCHANGED << clock, store, env, ctl, isInitialized, react, navPending, ui, arg, out,
                  backend >>

\* Variant: the interceptor redirects without clearing the session.
onResponseError_keepsSession(st, status) ==
  IF status = HTTP_UNAUTHORIZED /\ ~authDisabled
    THEN [store |-> st, redirect |-> TRUE]
    ELSE [store |-> st, redirect |-> FALSE]

\* The rejected handler of the response interceptors of api and
\* apiRequestor: the store it leaves and whether it assigns
\* window.location.href = "/login".
onResponseError(st, status) ==
  IF status = HTTP_UNAUTHORIZED /\ ~authDisabled
    THEN [store |-> clearSession(st).store, redirect |-> TRUE]
    ELSE [store |-> st, redirect |-> FALSE]

\* A 401 response: the interceptor runs; the navigation it starts unloads
\* the page some time later (Reload).
Handle401 ==
  /\ life = "mounted"
  /\ Called("api401", "void")
  /\ LET r == onResponseError(store, HTTP_UNAUTHORIZED)
     IN  /\ store' = r.store
         /\ navPending' = (navPending \/ r.redirect)
  /\ UNCHANGED << clock, env, ctl, isInitialized, react, ui, io >>

\* A new page lifetime (navigation or reload): timers and component state
\* are gone, storage stays.
Reload ==
  /\ life # "committing"
  /\ isAuthenticated' = FALSE
  /\ user' = Null
  /\ session' = Null
  /\ isSessionExpiring' = FALSE
  /\ isInitialized' = FALSE
  /\ queued' = Null
  /\ life' = "rendered"
  /\ intervalDep' = FALSE
  /\ intervalCleanup' = FALSE
  /\ intervals' = 0
  /\ initCount' = 0
  /\ navPending' = FALSE
  /\ showWarning' = FALSE
  /\ warnDep' = FALSE
  /\ guardDep' = Null
  /\ redirected' = FALSE
  /\ Called("reload", "void")
  /\ UNCHANGED << clock, store, env, io >>

Next ==
  \/ \E d \in TimeSteps : Advance(d)
  \/ Mount
  \/ Render
  \/ IntervalEffect
  \/ Tick
  \/ Unmount
  \/ \E u \in Usernames, p \in Passwords, w \in BOOLEAN : login(u, p, w)
  \/ logout
  \/ \E w \in BOOLEAN : Refresh(w)
  \/ Handle401
  \/ Reload

Spec == Init /\ [][Next]_vars

\* The timer keeps firing while registered, React runs the effects and the
\* commit it scheduled, and a navigation that was started completes.
FairSpec ==
  /\ Spec
  /\ WF_vars(Tick)
  /\ WF_vars(Mount)
  /\ WF_vars(Render)
  /\ WF_vars(IntervalEffect)
  /\ WF_vars(navPending /\ Reload)

\* ------------------------------------ components/SessionExpirationWarning
\* useEffect(() => setShowWarning(isSessionExpiring), [isSessionExpiring]):
\* runs after a commit in which isSessionExpiring differs from the value the
\* effect last saw.  Its run in the first commit sets false over false.
WarningEffect ==
  /\ life = "mounted"
  /\ warnDep # isSessionExpiring
  /\ showWarning' = isSessionExpiring
  /\ warnDep' = isSessionExpiring
  /\ UNCHANGED << clock, store, env, ctl, isInitialized, react, navPending, hist,
                  guardDep, redirected, io >>

\* Variant: the banner is hidden whatever refreshSession returned.
hideOnSuccess_always(success, shown) == FALSE

\* if (success) setShowWarning(false)
hideOnSuccess(success, shown) == IF success THEN FALSE ELSE shown

\* "Extend Session" button, rendered only while showWarning.
handleRefresh(writeOk) ==
  /\ showWarning
  /\ refreshSession(writeOk)
  /\ showWarning' = hideOnSuccess(ret' = "true", showWarning)
  /\ UNCHANGED << warnDep, guardDep, redirected, io >>

\* Variant: dismissing also clears the stored session.
handleDismiss_clearsSession ==
  /\ life = "mounted"
  /\ showWarning
  /\ showWarning' = FALSE
  /\ store' = clearSession(store).store
  /\ Called("dismiss", "void")
  /\ UNCHANGED << clock, env, ctl, isInitialized, react, navPending,
                  warnDep, guardDep, redirected, io >>

\* Dismiss button, rendered only while showWarning.
handleDismiss ==
  /\ life = "mounted"
  /\ showWarning
  /\ showWarning' = FALSE
  /\ Called("dismiss", "void")
  /\ UNCHANGED << clock, store, env, ctl, isInitialized, react, navPending,
                  warnDep, guardDep, redirected, io >>

\* ------------------------------------------ app/api_key_management/page
\* Body of the guard effect: whether it calls router.push("/login").
guardEffect(authenticated) == ~authDisabled /\ ~authenticated

\* The guard effect in the first commit of a page load.  Effects of a child
\* run before those of the provider above it, and all of them see the
\* state of the first render.
GuardMount ==
  /\ life = "rendered"
  /\ guardDep = Null
  /\ guardDep' = Some(isAuthenticated)
  /\ redirected' = (redirected \/ guardEffect(isAuthenticated))
  /\ UNCHANGED << clock, store, env, ctl, isInitialized, react, navPending, hist,
                  showWarning, warnDep, io >>

\* The provider's effects of the first commit, after those of the page.
PageMount ==
  /\ guardDep # Null
  /\ Mount

\* The guard effect re-run after a commit in which isAuthenticated changed.
GuardEffect ==
  /\ life = "mounted"
  /\ guardDep # Null
  /\ guardDep # Some(isAuthenticated)
  /\ guardDep' = Some(isAuthenticated)
  /\ redirected' = (redirected \/ guardEffect(isAuthenticated))
  /\ UNCHANGED << clock, store, env, ctl, isInitialized, react, navPending, hist,
                  showWarning, warnDep, io >>

\* A protected page under the provider, with the banner of the layout.
PageNext ==
  \/ \E d \in TimeSteps : Advance(d)
  \/ GuardMount
  \/ PageMount
  \/ Render
  \/ IntervalEffect
  \/ GuardEffect
  \/ WarningEffect
  \/ Tick
  \/ Unmount
  \/ \E u \in Usernames, p \in Passwords, w \in BOOLEAN : login(u, p, w)
  \/ logout
  \/ \E w \in BOOLEAN : handleRefresh(w)
  \/ handleDismiss
  \/ Handle401
  \/ Reload

PageSpec == Init /\ [][PageNext]_vars

\* ------------------------------------ direct calls of the session manager
\* Arguments of createSession: a user with every field, users whose optional
\* fields are undefined or missing; one hour, or no expiresIn; with and
\* without a refresh token.
SessionUsers ==
  { AdminUser(<<"admin">>),
    [username |-> Some(<<"guest">>), email |-> Undefined, role |-> Undefined,
     id |-> Undefined],
    [username |-> Some(<<"guest">>)] }

ExpiresIns == { Undefined, Some(60 * 60) }

RefreshTokens == { Undefined, Some(<<"refresh-token">>) }

SessionInputs(t) ==
  { createSession(<<"token">>, u, e, r, t) :
      u \in SessionUsers, e \in ExpiresIns, r \in RefreshTokens }

\* saveSession(s)
ManagerSave(s, writeOk) ==
  /\ LET saved == saveSession(store, s, writeOk)
     IN  /\ store' = saved.store
         /\ Called("save", IF saved.ok THEN "true" ELSE "false")
  /\ arg' = Some(s)
  /\ out' = Null
  /\ UNCHANGED << clock, env, ctl, isInitialized, react, navPending, ui, net >>

\* getSession()
ManagerLoad ==
  /\ out' = getSession(store)
  /\ arg' = Null
  /\ Called("load", "void")
  /\ UNCHANGED << clock, store, env, ctl, isInitialized, react, navPending, ui,
                  net >>

\* clearSession()
ManagerClear ==
  /\ LET cleared == clearSession(store)
     IN  /\ store' = cleared.store
         /\ Called("clear", IF cleared.ok THEN "true" ELSE "false")
  /\ arg' = Null
  /\ out' = Null
  /\ UNCHANGED << clock, env, ctl, isInitialized, react, navPending, ui, net >>

\* Records a caller can hand to saveSession although no login makes them: a
\* session with an empty token, and one without a user.
OddSessions(t) ==
  { createSession(<<>>, AdminUser(<<"admin">>), Undefined, Undefined, t),
    [token |-> Some(<<"token">>), user |-> Undefined, issuedAt |-> Some(t),
     expiresAt |-> Some(t + DEFAULT_SESSION_DURATION), refreshToken |-> Undefined] }

\* Arguments of extendSession, updateSessionUser and isSessionExpiringSoon.
AdditionalTimes == { Undefined, Some(60 * 60) }

PartialUsers == { [email |-> Some("guest@example.com")] }

ThresholdMinutes == { EXPIRING_THRESHOLD_MINUTES, 60 }

\* The clock steps of the direct calls: one millisecond, and the spans that
\* bring a 24-hour session to its last five minutes, one millisecond before
\* them, and to its end.
ManagerSteps ==
  { 1,
    DEFAULT_SESSION_DURATION - EXPIRING_THRESHOLD_MINUTES * 60 * 1000 - 1,
    DEFAULT_SESSION_DURATION - EXPIRING_THRESHOLD_MINUTES * 60 * 1000,
    DEFAULT_SESSION_DURATION }

\* getSessionData()
ManagerQuery ==
  /\ LET sd == getSessionData(store, now)
     IN  /\ store' = sd.store
         /\ out' = Some([session |-> sd.session, isValid |-> sd.isValid,
                         isExpired |-> sd.isExpired])
  /\ arg' = Null
  /\ Called("queryState", "void")
  /\ UNCHANGED << clock, env, ctl, isInitialized, react, navPending, ui, net >>

\* extendSession(additionalTime)
ManagerExtend(additionalTime, writeOk) ==
  /\ LET extended == extendSession(store, additionalTime, now, writeOk)
     IN  /\ store' = extended.store
         /\ Called("extend", IF extended.ok THEN "true" ELSE "false")
  /\ arg' = Some([additionalTime |-> additionalTime])
  /\ out' = Null
  /\ UNCHANGED << clock, env, ctl, isInitialized, react, navPending, ui, net >>

\* updateSessionUser(partial)
ManagerMergeUser(partial, writeOk) ==
  /\ LET merged == updateSessionUser(store, partial, now, writeOk)
     IN  /\ store' = merged.store
         /\ Called("mergeUser", IF merged.ok THEN "true" ELSE "false")
  /\ arg' = Some(partial)
  /\ out' = Null
  /\ UNCHANGED << clock, env, ctl, isInitialized, react, navPending, ui, net >>

\* getSessionTimeRemaining()
ManagerTimeRemaining ==
  /\ out' = Some([remaining |-> getSessionTimeRemaining(store, now)])
  /\ arg' = Null
  /\ Called("timeRemaining", "void")
  /\ UNCHANGED << clock, store, env, ctl, isInitialized, react, navPending, ui,
                  net >>

\* isSessionExpiringSoon(thresholdMinutes)
ManagerExpiringSoon(thresholdMinutes) ==
  /\ out' = Some([expiringSoon |->
                   isSessionExpiringSoon(store, thresholdMinutes, now)])
  /\ arg' = Some([thresholdMinutes |-> thresholdMinutes])
  /\ Called("isExpiringSoon", "void")
  /\ UNCHANGED << clock, store, env, ctl, isInitialized, react, navPending, ui,
                  net >>

\* getSessionToken()
ManagerToken ==
  /\ out' = Some([token |-> getSessionToken(store)])
  /\ arg' = Null
  /\ Called("token", "void")
  /\ UNCHANGED << clock, store, env, ctl, isInitialized, react, navPending, ui,
                  net >>

\* getSessionUser()
ManagerUser ==
  /\ out' = Some([user |-> getSessionUser(store)])
  /\ arg' = Null
  /\ Called("currentUser", "void")
  /\ UNCHANGED << clock, store, env, ctl, isInitialized, react, navPending, ui,
                  net >>

\* The session manager called directly, no provider mounted.
ManagerNext ==
  \/ \E d \in TimeSteps : Advance(d)
  \/ \E s \in SessionInputs(now), w \in BOOLEAN : ManagerSave(s, w)
  \/ ManagerLoad
  \/ ManagerClear

ManagerSpec == Init /\ [][ManagerNext]_vars

\* ------------------------------------ direct calls of the storage adapter
\* The caller of an adapter function sees what it returned, or the
\* exception it let through.
Seen(r, shown) == IF r.raised THEN "raised" ELSE shown

\* setStorageItem(key, value)
AdapterSet(value, writeOk) ==
  /\ LET r == setStorageItemCall(store, value, writeOk)
     IN  /\ store' = IF r.raised THEN store ELSE r.value.store
         /\ Called("set", Seen(r, IF r.value.ok THEN "true" ELSE "false"))
  /\ arg' = Some([value |-> value, throws |-> ~writeOk])
  /\ out' = Null
  /\ UNCHANGED << clock, env, ctl, isInitialized, react, navPending, ui, net >>

\* getStorageItem(key)
AdapterGet ==
  /\ LET r == getStorageItemCall(store)
     IN  /\ out' = IF r.raised THEN Null ELSE r.value
         /\ Called("get", Seen(r, IF r.value = Null THEN "null" ELSE "value"))
  /\ arg' = Null
  /\ UNCHANGED << clock, store, env, ctl, isInitialized, react, navPending, ui,
                  net >>

\* removeStorageItem(key)
AdapterRemove ==
  /\ LET r == removeStorageItemCall(store)
     IN  /\ store' = IF r.raised THEN store ELSE r.value.store
         /\ Called("remove", Seen(r, IF r.value.ok THEN "true" ELSE "false"))
  /\ arg' = Null
  /\ out' = Null
  /\ UNCHANGED << clock, env, ctl, isInitialized, react, navPending, ui, net >>

\* clearStorage()
AdapterClear ==
  /\ LET r == clearStorageCall(store)
     IN  /\ store' = IF r.raised THEN store ELSE r.value.store
         /\ Called("clear", Seen(r, IF r.value.ok THEN "true" ELSE "false"))
  /\ arg' = Null
  /\ out' = Null
  /\ UNCHANGED << clock, env, ctl, isInitialized, react, navPending, ui, net >>

\* hasStorageItem(key)
AdapterHas ==
  /\ LET r == hasStorageItemCall(store)
     IN  Called("has", Seen(r, IF r.value THEN "true" ELSE "false"))
  /\ arg' = Null
  /\ out' = Null
  /\ UNCHANGED << clock, store, env, ctl, isInitialized, react, navPending, ui,
                  net >>

\* isStorageAvailable()
AdapterAvailable(writeOk) ==
  /\ LET r == isStorageAvailableCall(writeOk)
     IN  Called("isAvailable", Seen(r, IF r.value THEN "true" ELSE "false"))
  /\ arg' = Some([throws |-> ~writeOk])
  /\ out' = Null
  /\ UNCHANGED << clock, store, env, ctl, isInitialized, react, navPending, ui,
                  net >>

\* Another script of the origin, or the user, puts a text under the key.
ForeignWrite(text) ==
  /\ storageAvailable
  /\ store' = Some(text)
  /\ Called("foreignWrite", "void")
  /\ arg' = Null
  /\ out' = Null
  /\ UNCHANGED << clock, env, ctl, isInitialized, react, navPending, ui, net >>

AdapterNext ==
  \/ \E s \in SessionInputs(now), w \in BOOLEAN : AdapterSet(s, w)
  \/ AdapterGet
  \/ AdapterRemove
  \/ AdapterClear
  \/ AdapterHas
  \/ \E w \in BOOLEAN : AdapterAvailable(w)
  \/ \E text \in {EmptyText, Garbage} : ForeignWrite(text)

AdapterSpec == Init /\ [][AdapterNext]_vars

\* Arguments of a direct createSession call: no expiresIn, zero, one hour,
\* and a negative number of seconds.
CreateExpiresIns == { Undefined, Some(0), Some(60 * 60), Some(0 - 60) }

\* createSession(token, user, expiresIn, refreshToken)
ManagerCreate(token, u, expiresIn, refreshToken) ==
  /\ out' = Some(createSession(token, u, expiresIn, refreshToken, now))
  /\ arg' = Some([token |-> token, user |-> u, expiresIn |-> expiresIn,
                  refreshToken |-> refreshToken])
  /\ Called("create", "void")
  /\ UNCHANGED << clock, store, env, ctl, isInitialized, react, navPending, ui,
                  net >>

\* The accessors of the session manager called directly on a storage that
\* holds nothing or what an earlier saveSession left: the session of a login,
\* a one-hour session with a refresh token, or one of the odd records.
StoredRecords(t) ==
  { JsonRoundTrip(s) :
      s \in { createSession(<<"token">>, AdminUser(<<"admin">>), Undefined,
                            Undefined, t),
              createSession(<<"token">>, [username |-> Some(<<"guest">>)],
                            Some(60 * 60), Some(<<"refresh-token">>), t) }
            \cup OddSessions(t) }

AccessInit ==
  \E st \in {Null} \cup { Some(r) : r \in StoredRecords(StartTime) } :
    /\ Loaded(st)
    /\ st # Null => storageAvailable
    /\ authDisabled = FALSE

AccessNext ==
  \/ \E d \in ManagerSteps : Advance(d)
  \/ \E u \in {AdminUser(<<"admin">>)}, e \in CreateExpiresIns, r \in RefreshTokens :
       ManagerCreate(<<"token">>, u, e, r)
  \/ ManagerQuery
  \/ \E a \in AdditionalTimes, w \in BOOLEAN : ManagerExtend(a, w)
  \/ \E p \in PartialUsers, w \in BOOLEAN : ManagerMergeUser(p, w)
  \/ ManagerTimeRemaining
  \/ \E m \in ThresholdMinutes : ManagerExpiringSoon(m)
  \/ ManagerToken
  \/ ManagerUser

AccessSpec == AccessInit /\ [][AccessNext]_vars

\* The controller in a browser that has been here before.
ReturnSpec == ReturnInit /\ [][Next]_vars

\* A second tab of the same origin logs out: its handleLogout removes the
\* record from the storage the two tabs share.
OtherTabLogout ==
  /\ store # Null
  /\ store' = handleLogout(store).store
  /\ Called("otherTabLogout", "void")
  /\ UNCHANGED << clock, env, ctl, isInitialized, react, navPending, ui, io >>

\* A second tab of the same origin logs in: its login writes a new session
\* to the storage the two tabs share.
OtherTabLogin ==
  /\ ~authDisabled
  /\ LET newSession == createSession(DummyToken(now), AdminUser(<<"admin">>),
                                     Some(LOGIN_EXPIRES_IN), Undefined, now)
         saved == saveSession(store, newSession, TRUE)
     IN  /\ saved.ok
         /\ store' = saved.store
  /\ Called("otherTabLogin", "void")
  /\ UNCHANGED << clock, env, ctl, isInitialized, react, navPending, ui, io >>

MultiTabNext ==
  \/ Next
  \/ OtherTabLogout
  \/ OtherTabLogin

MultiTabSpec == Init /\ [][MultiTabNext]_vars

\* The controller together with the API layer's outbound requests.
ApiNext ==
  \/ Next
  \/ \E fn \in ApiFunctions : ApiRequest(fn)

ApiSpec == Init /\ [][ApiNext]_vars

\* ------------------------- two tabs, every storage call a step of its own
\* Tab A is the controller of the model, tab B another tab on the same
\* localStorage.  While a function of tab A is between its getSession() and
\* its saveSession(), arg holds the call and out what getSession() returned;
\* tab A runs nothing else until the function has returned, tab B may.
InFlight == arg # Null

RaceCalls ==
  { [op |-> "extend", additionalTime |-> Undefined, partial |-> p,
     phase |-> "loaded"] : p \in PartialUsers }
  \cup { [op |-> "mergeUser", additionalTime |-> Undefined, partial |-> p,
          phase |-> "loaded"] : p \in PartialUsers }
  \cup { [op |-> "refresh", additionalTime |-> Some(REFRESH_EXTENSION),
          partial |-> p, phase |-> "loaded"] : p \in PartialUsers }

\* extendSession / updateSessionUser, first half: getSession() and the
\* `!session || isSessionExpired(session)` return.
BeginCall(call) ==
  /\ ~InFlight
  /\ call.op = "refresh" => life = "mounted"
  /\ LET s == getSession(store)
     IN  IF s = Null \/ isSessionExpired(s[1], now)
           THEN /\ Called(call.op, "false")
                /\ UNCHANGED << arg, out >>
           ELSE /\ arg' = Some(call)
                /\ out' = s
                /\ UNCHANGED hist
  /\ UNCHANGED << clock, store, env, ctl, isInitialized, react, navPending, ui,
                  net >>

\* Second half: the loaded object is changed and saveSession() writes it,
\* whatever the storage holds by then.
WriteBack(writeOk) ==
  /\ InFlight
  /\ arg[1].phase = "loaded"
  /\ LET call == arg[1]
         r == IF call.op = "mergeUser"
                THEN updateSessionUser(out, call.partial, now, writeOk)
                ELSE extendSession(out, call.additionalTime, now, writeOk)
     IN  /\ store' = IF r.ok THEN r.store ELSE store
         /\ IF call.op = "refresh" /\ r.ok
              THEN /\ arg' = Some([call EXCEPT !.phase = "saved"])
                   /\ UNCHANGED << out, hist >>
              ELSE /\ arg' = Null
                   /\ out' = Null
                   /\ Called(call.op, IF r.ok THEN "true" ELSE "false")
  /\ UNCHANGED << clock, env, ctl, isInitialized, react, navPending, ui,
                  net >>

\* refreshSession after its extendSession() returned true: getSessionData()
\* and the setters.
ReloadAfterExtend ==
  /\ InFlight
  /\ arg[1].phase = "saved"
  /\ LET sd == getSessionData(store, now)
     IN  /\ store' = sd.store
         /\ IF sd.isValid /\ sd.session # Null
              THEN /\ session' = sd.session
                   /\ isSessionExpiring' = FALSE
                   /\ Called("refresh", "true")
                   /\ UNCHANGED << isAuthenticated, user >>
              ELSE /\ Called("refresh", "false")
                   /\ UNCHANGED ctl
  /\ arg' = Null
  /\ out' = Null
  /\ UNCHANGED << clock, env, isInitialized, react, navPending, ui, net >>

RaceNext ==
  \/ ~InFlight /\ \E d \in TimeSteps : Advance(d)
  \/ ~InFlight /\ Mount
  \/ ~InFlight /\ Render
  \/ \E call \in RaceCalls : BeginCall(call)
  \/ \E w \in BOOLEAN : WriteBack(w)
  \/ ReloadAfterExtend
  \/ OtherTabLogout

\* Both tabs opened in a browser that holds the session of an earlier login.
RaceSpec == ReturnInit /\ [][RaceNext]_vars

\* ------------------------------------------- the API layer's applications
\* The backend's side of the three requests of createApplication.  A
\* request with ok = FALSE fails (an error status or no answer) and
\* changes nothing on the backend.
postApp(b, ok) ==
  IF ok
    THEN [failed |-> FALSE, id |-> b.nextId,
          backend |-> [apps |-> b.apps \cup {[id |-> b.nextId, hasKey |-> FALSE]},
                       nextId |-> b.nextId + 1]]
    ELSE [failed |-> TRUE, id |-> 0, backend |-> b]

postApiKey(b, id, ok) ==
  IF ok
    THEN [failed |-> FALSE,
          backend |-> [b EXCEPT !.apps =
                         { IF a.id = id THEN [a EXCEPT !.hasKey = TRUE] ELSE a :
                             a \in b.apps }]]
    ELSE [failed |-> TRUE, backend |-> b]

deleteApp(b, id, ok) ==
  IF ok
    THEN [failed |-> FALSE,
          backend |-> [b EXCEPT !.apps = { a \in b.apps : a.id # id }]]
    ELSE [failed |-> TRUE, backend |-> b]

\* createApplication: POST /app, POST /app/{id}/api-key, and on a failure
\* of the second the rollback DELETE /app/{id}, whose own failure is caught
\* and logged before the error is thrown.
createApplication(b, createOk, keyOk, deleteOk) ==
  LET created == postApp(b, createOk)
  IN  IF created.failed
        THEN [thrown |-> TRUE, app |-> Null, backend |-> created.backend]
        ELSE LET keyed == postApiKey(created.backend, created.id, keyOk)
             IN  IF ~keyed.failed
                   THEN [thrown |-> FALSE,
                         app |-> Some([id |-> created.id,
                                       apiKey |-> Some(created.id),
                                       apiKeyId |-> Some(created.id)]),
                         backend |-> keyed.backend]
                   ELSE [thrown |-> TRUE, app |-> Null,
                         backend |-> deleteApp(keyed.backend, created.id,
                                               deleteOk).backend]

CreateApplication(createOk, keyOk, deleteOk) ==
  /\ backend.nextId <= MaxApps
  /\ LET r == createApplication(backend, createOk, keyOk, deleteOk)
     IN  /\ backend' = r.backend
         /\ out' = r.app
         /\ Called("createApplication", IF r.thrown THEN "thrown" ELSE "returned")
  /\ arg' = Null
  /\ UNCHANGED << clock, store, env, ctl, isInitialized, react, navPending, ui,
                  lastRequest >>

\* deleteApplication(id)
DeleteApplication(id, ok) ==
  /\ \E a \in backend.apps : a.id = id
  /\ LET r == deleteApp(backend, id, ok)
     IN  /\ backend' = r.backend
         /\ Called("deleteApplication", IF r.failed THEN "thrown" ELSE "returned")
  /\ arg' = Null
  /\ out' = Null
  /\ UNCHANGED << clock, store, env, ctl, isInitialized, react, navPending, ui,
                  lastRequest >>

CreateNext ==
  \/ \E createOk \in BOOLEAN, keyOk \in BOOLEAN, deleteOk \in BOOLEAN :
       CreateApplication(createOk, keyOk, deleteOk)
  \/ \E id \in 1..MaxApps, ok \in BOOLEAN : DeleteApplication(id, ok)

CreateSpec == Init /\ [][CreateNext]_vars

\* =====================================================================
\* Properties.  The predicates below restate the specification's notions
\* of expired / valid / equal; they do not call the session manager.
SessionFields == {"token", "user", "issuedAt", "expiresAt", "refreshToken"}

SessionEq(a, b) == \A f \in SessionFields : Prop(a, f) = Prop(b, f)

ExpiresAtOf(st) == Prop(st[1], "expiresAt")[1]

IssuedAtOf(st) == Prop(st[1], "issuedAt")[1]

StoredExpired(st, t) ==
  /\ st # Null
  /\ Prop(st[1], "expiresAt") # Undefined
  /\ ExpiresAtOf(st) <= t

StoredValid(st, t) ==
  /\ st # Null
  /\ Prop(st[1], "token") # Undefined
  /\ Prop(st[1], "token") # Some(<<>>)
  /\ Prop(st[1], "user") # Undefined
  /\ Prop(st[1], "expiresAt") # Undefined
  /\ t < ExpiresAtOf(st)

Anonymous ==
  /\ isAuthenticated = FALSE
  /\ user = Null
  /\ session = Null
  /\ isSessionExpiring = FALSE

\* token(): the stored record's token, null when there is none or it is empty.
StoredToken(st) ==
  IF st = Null \/ ~storageAvailable THEN Null
  ELSE IF Prop(st[1], "token") = Some(<<>>) THEN Null
  ELSE Prop(st[1], "token")

\* The synthetic development identity (its username is the one typed at a
\* bypassed login, "dev-user" otherwise).
IsDevUser(u) ==
  /\ u # Null
  /\ u[1].id = Some("dev-user")
  /\ u[1].email = Some("dev@example.com")
  /\ u[1].role = Some("admin")

UserFields == {"username", "email", "role", "id"}

\* Equality of two sessions as values: every field reads the same, a
\* property that is missing reads as undefined.
UserSame(u, v) ==
  \/ (u = Undefined /\ v = Undefined)
  \/ /\ u # Undefined
     /\ v # Undefined
     /\ \A f \in UserFields : Prop(u[1], f) = Prop(v[1], f)

SessionSame(a, b) ==
  /\ \A f \in SessionFields \ {"user"} : Prop(a, f) = Prop(b, f)
  /\ UserSame(Prop(a, "user"), Prop(b, "user"))

CtlAsBefore ==
  /\ isAuthenticated = pre.isAuthenticated
  /\ user = pre.user
  /\ session = pre.session
  /\ isSessionExpiring = pre.isSessionExpiring

\* C1: whenever the persisted session has expiresAt <= now, isSessionValid is
\* false of it, getSessionData returns {session: null, isValid: false,
\* isExpired: true} and leaves nothing persisted (getSession then returns
\* null); and after every handler that queried such a record (initialize,
\* tick) nothing is persisted.
C1_ExpiredQueryCleans ==
  /\ StoredExpired(store, now) =>
       /\ ~isSessionValid(store, now)
       /\ LET sd == getSessionData(store, now)
          IN  /\ sd.session = Null
              /\ sd.isValid = FALSE
              /\ sd.isExpired = TRUE
              /\ getSession(sd.store) = Null
  /\ (lastOp \in {"initialize", "tick"} /\ ~authDisabled
        /\ StoredExpired(pre.store, pre.at)) => store = Null

C1_Witness ==
  /\ lastOp = "tick"
  /\ StoredExpired(pre.store, pre.at)
  /\ ExpiresAtOf(pre.store) = pre.at
  /\ store = Null

\* C2: with the bypass off, login with the right credentials and a storage
\* write that succeeds returns true; after a login that returned true the
\* persisted record is the new session (issued at the login, expiresAt -
\* issuedAt = 24h, nothing of an earlier record), isAuthenticated is true,
\* the controller's user and session equal those of the persisted record,
\* and isSessionExpiring is false.
C2_LoginOk ==
  (lastOp = "login" /\ ret = "true" /\ ~authDisabled) =>
    /\ store # Null
    /\ IssuedAtOf(store) = pre.at
    /\ ExpiresAtOf(store) - IssuedAtOf(store) = 24 * 60 * 60 * 1000
    /\ Prop(store[1], "token") = Some(DummyToken(pre.at))
    /\ isAuthenticated = TRUE
    /\ user # Null
    /\ user = Prop(store[1], "user")
    /\ session # Null
    /\ SessionEq(session[1], store[1])
    /\ isSessionExpiring = FALSE

C2_LoginSuccess ==
  /\ []C2_LoginOk
  /\ [][ (~authDisabled /\ storageAvailable
            /\ login(<<"admin">>, <<"admin123">>, TRUE)) => ret' = "true" ]_vars

C2_Witness ==
  /\ lastOp = "login" /\ ret = "true" /\ ~authDisabled
  /\ pre.store # Null
  /\ pre.store # store
  /\ pre.isSessionExpiring

\* C3: with the bypass off, a login with wrong credentials, or whose storage
\* write fails, returns false; after a login that returned false
\* isAuthenticated, user, session, isSessionExpiring and the persisted
\* record are what they were before the call.
C3_LoginFailedFrame ==
  (lastOp = "login" /\ ret = "false") => (store = pre.store /\ CtlAsBefore)

C3_FailedLogin ==
  /\ []C3_LoginFailedFrame
  /\ [][ \A u \in Usernames, p \in Passwords, w \in BOOLEAN :
           ( /\ ~authDisabled
             /\ (u # <<"admin">> \/ p # <<"admin123">> \/ ~w \/ ~storageAvailable)
             /\ login(u, p, w) ) => ret' = "false" ]_vars

C3_Witness ==
  /\ lastOp = "login" /\ ret = "false"
  /\ pre.isAuthenticated
  /\ pre.store # Null
  /\ pre.isSessionExpiring
  /\ store = pre.store

\* C4: after logout nothing is persisted and the controller is anonymous,
\* and a second logout from that state yields the same state again.
C4_LogoutIdempotent ==
  lastOp = "logout" =>
    /\ store = Null
    /\ Anonymous
    /\ handleLogout(store) =
         [store |-> store, isAuthenticated |-> isAuthenticated, user |-> user,
          session |-> session, isSessionExpiring |-> isSessionExpiring]

C4_Witness ==
  /\ lastOp = "logout"
  /\ pre.isAuthenticated
  /\ pre.store # Null
  /\ pre.isSessionExpiring
  /\ Anonymous

\* C5: while isInitialized is false no interval is registered and no tick
\* has run; an interval is registered, and a tick runs, only after the
\* first initializeSession of the page has completed and been rendered.
C5_InitBeforeTimer ==
  /\ intervals > 0 => (isInitialized /\ initCount >= 1 /\ queued = Null)
  /\ lastOp = "tick" => (isInitialized /\ initCount >= 1 /\ queued = Null)

C5_Witness ==
  /\ lastOp = "tick"
  /\ intervals = 1
  /\ isInitialized

\* C6: once initializeSession has run and been rendered, isInitialized is
\* true; with the bypass off: a valid stored session is adopted
\* (isAuthenticated, user and session equal to the stored ones, record kept),
\* an expired one leaves the store empty and the controller anonymous, and
\* no stored session leaves the controller anonymous and the store as it was.
C6_InitializeOutcomes ==
  (lastOp = "initialize" /\ queued = Null) =>
    /\ isInitialized
    /\ ~authDisabled =>
         /\ StoredValid(pre.store, pre.at) =>
              /\ isAuthenticated
              /\ user = Prop(pre.store[1], "user")
              /\ session = pre.store
              /\ store = pre.store
         /\ StoredExpired(pre.store, pre.at) => (store = Null /\ Anonymous)
         /\ pre.store = Null => (store = Null /\ Anonymous)

C6_Witness ==
  /\ lastOp = "initialize" /\ queued = Null /\ ~authDisabled
  /\ StoredValid(pre.store, pre.at)
  /\ isAuthenticated
  /\ session = store

C6_WitnessExpired ==
  /\ lastOp = "initialize" /\ queued = Null /\ ~authDisabled
  /\ StoredExpired(pre.store, pre.at)

C6_WitnessAbsent ==
  /\ lastOp = "initialize" /\ queued = Null /\ ~authDisabled
  /\ pre.store = Null /\ pre.at > StartTime

\* C7: in one page lifetime initializeSession runs at most once, and only
\* as the mount effect; isInitialized never goes back to false; only a new
\* page lifetime starts over.
C7_InitializeOnce ==
  [][ /\ initCount' \in {0, 1}
      /\ (initCount' > initCount) => (~isInitialized /\ lastOp' = "initialize")
      /\ (initCount' < initCount) => (lastOp' = "reload" /\ life' = "rendered")
      /\ (isInitialized /\ ~isInitialized') => (lastOp' = "reload" /\ life' = "rendered")
    ]_vars

C7_Witness ==
  /\ initCount = 1
  /\ isInitialized
  /\ lastOp = "refresh" /\ ret = "true"
  /\ intervals = 1

\* C8: a tick that finds the stored session expired ends with the store
\* empty and the controller anonymous; a tick that finds it valid sets
\* isSessionExpiring to (0 < time remaining <= 5 minutes) and changes no
\* other controller field and not the stored record.
C8_TickActs ==
  lastOp = "tick" =>
    /\ StoredExpired(pre.store, pre.at) => (store = Null /\ Anonymous)
    /\ StoredValid(pre.store, pre.at) =>
         /\ isSessionExpiring =
              ( /\ ExpiresAtOf(pre.store) - pre.at > 0
                /\ ExpiresAtOf(pre.store) - pre.at <= 5 * 60 * 1000 )
         /\ isAuthenticated = pre.isAuthenticated
         /\ user = pre.user
         /\ session = pre.session
         /\ store = pre.store

C8_Witness ==
  /\ lastOp = "tick"
  /\ StoredValid(pre.store, pre.at)
  /\ ExpiresAtOf(pre.store) - pre.at = 5 * 60 * 1000
  /\ ~pre.isSessionExpiring
  /\ isSessionExpiring

\* C9: a tick that runs once the persisted session's expiresAt has passed
\* logs the controller out (isAuthenticated false, user and session null,
\* nothing persisted); and while the timer keeps firing, an authenticated
\* controller whose persisted session has expired reaches that state,
\* unless the provider is torn down or a new login replaced the session.
C9_TickAfterExpiry ==
  (lastOp = "tick" /\ StoredExpired(pre.store, pre.at)) =>
    (~isAuthenticated /\ user = Null /\ session = Null /\ store = Null)

C10_RefreshOk ==
  (lastOp = "refresh" /\ ret = "true") =>
    /\ StoredValid(pre.store, pre.at)
    /\ store # Null
    /\ ExpiresAtOf(store) = pre.at + 24 * 60 * 60 * 1000
    /\ ExpiresAtOf(store) - pre.at > 23 * 60 * 60 * 1000
    /\ session # Null
    /\ SessionEq(session[1], store[1])
    /\ isSessionExpiring = FALSE

C11_ExtendFailsClosed ==
  /\ (store = Null \/ StoredExpired(store, now)) =>
       \A w \in BOOLEAN, a \in {Undefined, Some(REFRESH_EXTENSION)} :
         extendSession(store, a, now, w) = [ok |-> FALSE, store |-> store]
  /\ (lastOp = "refresh" /\ (pre.store = Null \/ StoredExpired(pre.store, pre.at))) =>
       /\ ret = "false"
       /\ store = pre.store
       /\ ~StoredValid(store, pre.at)
       /\ CtlAsBefore

C11_Witness ==
  /\ lastOp = "refresh" /\ ret = "false"
  /\ StoredExpired(pre.store, pre.at)
  /\ pre.isAuthenticated
  /\ isAuthenticated
  /\ store = pre.store

C11_WitnessAbsent ==
  /\ lastOp = "refresh" /\ ret = "false"
  /\ pre.store = Null
  /\ storageAvailable
  /\ pre.isAuthenticated

C13_Original ==
  (lastOp = "request" /\ lastRequest # Null) =>
    lastRequest[1].Authorization =
      IF StoredToken(pre.store) # Null
        THEN Some(<<"Bearer ", StoredToken(pre.store)[1]>>)
        ELSE Undefined

\* The same for the functions that go through the axios instances.
C13_AxiosRequests ==
  (lastOp = "request" /\ lastRequest # Null /\ lastRequest[1].fn # "testConnection") =>
    lastRequest[1].Authorization =
      IF StoredToken(pre.store) # Null
        THEN Some(<<"Bearer ", StoredToken(pre.store)[1]>>)
        ELSE Undefined

C13_FetchWithoutHeader ==
  /\ lastOp = "request" /\ lastRequest # Null
  /\ lastRequest[1].fn = "testConnection"
  /\ StoredToken(pre.store) # Null
  /\ lastRequest[1].Authorization = Undefined

C14_BypassFrame ==
  (authDisabled /\ isAuthenticated /\ ~isAuthenticated') =>
     \/ lastOp' = "logout"
     \/ lastOp' = "reload"
     \/ (lastOp' = "tick" /\ StoredExpired(store, now))

C14_WitnessTick ==
  /\ authDisabled
  /\ lastOp = "tick"
  /\ pre.isAuthenticated
  /\ ~isAuthenticated
  /\ isInitialized

\* C15 as claimed: when another tab has logged out (removing the stored
\* record) while this tab is authenticated in memory, this tab's next
\* periodic check leaves it with isAuthenticated false, user null and
\* session null.
C15_NextTickResets ==
  (lastOp = "otherTabLogout" /\ isAuthenticated /\ Tick) =>
    (~isAuthenticated' /\ user' = Null /\ session' = Null)

C15_Original == [][C15_NextTickResets]_vars

\* What the periodic check does instead: it finds no record and leaves the
\* controller as it was.
C15_StaleTabStays ==
  /\ lastOp = "tick"
  /\ pre.store = Null
  /\ pre.isAuthenticated /\ pre.session # Null
  /\ isAuthenticated /\ user # Null /\ session # Null

\* C16 as claimed: with the bypass off, in a page load that found a valid
\* stored session the route guard of the protected page has issued no
\* redirect to /login.
C16_Original ==
  (~authDisabled /\ lastOp = "initialize" /\ StoredValid(pre.store, pre.at))
    => ~redirected

\* What happens instead: the guard effect of the first commit has pushed
\* /login, and the session is restored by the commit after it.
C16_RedirectedThenRestored ==
  /\ ~authDisabled
  /\ lastOp = "initialize" /\ queued = Null
  /\ StoredValid(pre.store, pre.at)
  /\ isAuthenticated
  /\ redirected

\* C17: the dismiss handler hides the banner and changes neither the stored
\* session nor isAuthenticated, user, session and isSessionExpiring.
C17_DismissStep ==
  handleDismiss => (~showWarning' /\ UNCHANGED << store, ctl >>)

C17_DismissIsLocal ==
  /\ [](lastOp = "dismiss" => (store = pre.store /\ CtlAsBefore))
  /\ [][C17_DismissStep]_vars

C17_Witness ==
  /\ lastOp = "dismiss"
  /\ ~showWarning
  /\ StoredValid(store, now)
  /\ isAuthenticated
  /\ isSessionExpiring /\ pre.isSessionExpiring

\* C18 as claimed: when the first periodic check after a dismissal finds
\* the session still valid and expiring soon, the banner is shown again
\* after that check (it is rendered, or its effect is due to run and
\* render it).
C18_ComesBack ==
  (lastOp = "dismiss" /\ ~showWarning /\ Tick /\ isSessionExpiring')
    => (showWarning' \/ warnDep' # isSessionExpiring')

C18_Original == [][C18_ComesBack]_vars

\* What happens instead: after that check the banner is hidden and no
\* effect is due.
C18_StaysDismissed ==
  /\ lastOp = "tick"
  /\ StoredValid(pre.store, pre.at)
  /\ isSessionExpiring
  /\ warnDep = isSessionExpiring
  /\ ~showWarning

\* C19: the banner becomes visible only by its effect copying an
\* isSessionExpiring that is true, and while it is visible with
\* isSessionExpiring false the effect that hides it is due; a refresh from
\* the banner that returns true hides it, one that returns false leaves it
\* visible.
C19_PromptStep ==
  /\ (~showWarning /\ showWarning') => (isSessionExpiring /\ isSessionExpiring')
  /\ \A w \in BOOLEAN :
       handleRefresh(w) => /\ ret' = "true" => ~showWarning'
                           /\ ret' = "false" => showWarning'

C19_PromptFollowsFlag ==
  /\ []((showWarning /\ ~isSessionExpiring) => warnDep # isSessionExpiring)
  /\ [][C19_PromptStep]_vars

C19_Witness ==
  /\ lastOp = "refresh" /\ ret = "true"
  /\ pre.isSessionExpiring
  /\ warnDep
  /\ ~showWarning
  /\ ~isSessionExpiring

C19_WitnessFailed ==
  /\ lastOp = "refresh" /\ ret = "false"
  /\ pre.isSessionExpiring
  /\ StoredExpired(pre.store, pre.at)
  /\ showWarning

\* C20: with the storage available and the write accepted, saveSession(s)
\* returns true and the getSession() that follows returns a session equal
\* to s in token, user, issuedAt, expiresAt and refreshToken; a session
\* created with expiresIn = 3600 comes back with expiresAt - issuedAt =
\* 3,600,000.
C20_LoadStep ==
  (lastOp = "save" /\ ret = "true" /\ ManagerLoad) =>
    (out' # Null /\ SessionSame(out'[1], arg[1]))

C20_RoundTrip ==
  /\ [](storageAvailable =>
          \A s \in SessionInputs(now) :
            LET saved == saveSession(store, s, TRUE)
                loaded == getSession(saved.store)
            IN  /\ saved.ok
                /\ loaded # Null
                /\ SessionSame(loaded[1], s)
                /\ s = createSession(<<"token">>, AdminUser(<<"admin">>), Some(3600),
                                     Undefined, now)
                     => ExpiresAtOf(loaded) - IssuedAtOf(loaded) = 3600000)
  /\ [][C20_LoadStep]_vars

C20_Witness ==
  /\ lastOp = "load"
  /\ out # Null
  /\ pre.store = out
  /\ Prop(out[1], "refreshToken") = Some(<<"refresh-token">>)
  /\ Prop(Prop(out[1], "user")[1], "email") = Undefined
  /\ ExpiresAtOf(out) - IssuedAtOf(out) = 3600000

\* C21: every session-manager operation that reads the persisted session
\* (queryState, extend, mergeUser, timeRemaining, isExpiringSoon, token,
\* currentUser) and runs while the stored record is expired has deleted the
\* record by the time it returns, and token() / currentUser() return null
\* for an expired record.
ReadingOps ==
  { "queryState", "extend", "mergeUser", "timeRemaining", "isExpiringSoon",
    "token", "currentUser" }

C21_Original ==
  (lastOp \in ReadingOps /\ StoredExpired(pre.store, pre.at)) =>
    /\ store = Null
    /\ lastOp = "token" => out = Some([token |-> Null])
    /\ lastOp = "currentUser" => out = Some([user |-> Null])

\* What the accessors do instead: the token of the expired record is
\* returned and the record stays where it was.
C21_ExpiredTokenReturned ==
  /\ lastOp = "token"
  /\ StoredExpired(pre.store, pre.at)
  /\ out = Some([token |-> Some(<<"token">>)])
  /\ store = pre.store

\* C22: queryState() returns {null, false, false} when no record is stored,
\* {null, false, true} when the stored record is expired and {session, true,
\* false} when it is valid; isValid = true is returned only for a record
\* that is valid (non-empty token, a user, now < expiresAt), whatever the
\* record, one with an empty token or without a user included.
C22_Original ==
  lastOp = "queryState" =>
    /\ out # Null
    /\ pre.store = Null =>
         out[1] = [session |-> Null, isValid |-> FALSE, isExpired |-> FALSE]
    /\ StoredExpired(pre.store, pre.at) =>
         out[1] = [session |-> Null, isValid |-> FALSE, isExpired |-> TRUE]
    /\ StoredValid(pre.store, pre.at) =>
         out[1] = [session |-> pre.store, isValid |-> TRUE, isExpired |-> FALSE]
    /\ out[1].isValid => StoredValid(pre.store, pre.at)

\* What queryState() does for an unexpired record without a token: it is
\* reported valid and handed out.
C22_EmptyTokenValid ==
  /\ lastOp = "queryState"
  /\ pre.store # Null
  /\ Prop(pre.store[1], "token") = Some(<<>>)
  /\ out[1] = [session |-> pre.store, isValid |-> TRUE, isExpired |-> FALSE]

\* C23: no storage-adapter function raises.  When the storage is out of
\* reach or the underlying call throws, set, remove, clear, has and
\* isAvailable return false and get returns null; a set that failed leaves
\* the item under the key as it was; get returns null for an absent and for
\* an unparsable item, and the parsed value otherwise.
AdapterOps == { "set", "get", "remove", "clear", "has", "isAvailable" }

C23_AdapterDegrades ==
  lastOp \in AdapterOps =>
    /\ ret # "raised"
    /\ ~storageAvailable =>
         /\ ret = IF lastOp = "get" THEN "null" ELSE "false"
         /\ store = pre.store
    /\ (lastOp \in {"set", "isAvailable"} /\ arg[1].throws) => ret = "false"
    /\ (lastOp = "set" /\ ret = "false") => store = pre.store
    /\ (lastOp = "get" /\ pre.store \in {Null, Some(Garbage)}) =>
         (ret = "null" /\ out = Null)
    /\ (lastOp = "get" /\ ret = "value") => out = pre.store

\* A set whose setItem throws, over a stored value.
C23_Witness ==
  /\ lastOp = "set"
  /\ storageAvailable
  /\ arg[1].throws
  /\ ret = "false"
  /\ pre.store # Null
  /\ pre.store[1] \notin {Garbage, EmptyText}
  /\ store = pre.store

\* A get of an unparsable item.
C23_WitnessUnparsable ==
  /\ lastOp = "get"
  /\ pre.store = Some(Garbage)
  /\ ret = "null"

\* A remove with the storage out of reach.
C23_WitnessUnreachable ==
  /\ lastOp = "remove"
  /\ ~storageAvailable
  /\ ret = "false"

\* C24 (as claimed): createSession stamps issuedAt = now and expiresAt =
\* now + expiresInSeconds * 1000 for every supplied expiresInSeconds, 0
\* included, and now + 24 h only when it is omitted; the session has
\* expiresAt > issuedAt; nothing is written to the storage.
C24_Original ==
  lastOp = "create" =>
    LET e == arg[1].expiresIn
    IN  /\ out[1].issuedAt = Some(pre.at)
        /\ out[1].expiresAt =
             Some(pre.at + IF e = Undefined THEN DEFAULT_SESSION_DURATION
                                            ELSE e[1] * 1000)
        /\ out[1].expiresAt[1] > out[1].issuedAt[1]
        /\ store = pre.store

\* C24: createSession stamps issuedAt = now; expiresAt = now +
\* expiresInSeconds * 1000 for a supplied expiresInSeconds other than 0, and
\* now + 24 h when it is omitted or 0; expiresAt > issuedAt unless
\* expiresInSeconds is negative; token, user and refreshToken are the
\* arguments; nothing is written to the storage.
C24_CreateStamps ==
  lastOp = "create" =>
    LET e == arg[1].expiresIn
    IN  /\ out[1].issuedAt = Some(pre.at)
        /\ out[1].expiresAt =
             Some(pre.at + IF e \in {Undefined, Some(0)}
                             THEN DEFAULT_SESSION_DURATION
                             ELSE e[1] * 1000)
        /\ (e = Undefined \/ e[1] >= 0) =>
             out[1].expiresAt[1] > out[1].issuedAt[1]
        /\ out[1].token = Some(arg[1].token)
        /\ out[1].user = Some(arg[1].user)
        /\ out[1].refreshToken = arg[1].refreshToken
        /\ store = pre.store

\* createSession called with expiresIn = 0 over a stored session.
C24_Witness ==
  /\ lastOp = "create"
  /\ arg[1].expiresIn = Some(0)
  /\ out[1].expiresAt = Some(now + DEFAULT_SESSION_DURATION)
  /\ store # Null

\* createSession called with one hour.
C24_WitnessHour ==
  /\ lastOp = "create"
  /\ arg[1].expiresIn = Some(60 * 60)
  /\ out[1].expiresAt = Some(now + 3600000)
  /\ now > StartTime

\* C25: timeRemaining() is max(0, expiresAt - now), and 0 when no session
\* is stored; isExpiringSoon(thresholdMinutes) is true iff 0 <
\* timeRemaining() <= thresholdMinutes * 60000.  With the threshold 5 it is
\* true 5 min - 1 ms and exactly 5 min before expiresAt, false 5 min + 1 ms
\* before it, and false for an expired or absent session.
RemainingOf(st, t) ==
  IF st = Null THEN 0
  ELSE IF ExpiresAtOf(st) - t > 0 THEN ExpiresAtOf(st) - t ELSE 0

C25_WitnessInside ==
  /\ lastOp = "isExpiringSoon"
  /\ arg[1].thresholdMinutes = 5
  /\ pre.store # Null
  /\ ExpiresAtOf(pre.store) - pre.at = 5 * 60000 - 1
  /\ out[1].expiringSoon

C25_WitnessOutside ==
  /\ lastOp = "isExpiringSoon"
  /\ arg[1].thresholdMinutes = 5
  /\ pre.store # Null
  /\ ExpiresAtOf(pre.store) - pre.at = 5 * 60000 + 1
  /\ ~out[1].expiringSoon

\* The call on an expired record.
C25_WitnessExpired ==
  /\ lastOp = "isExpiringSoon"
  /\ StoredExpired(pre.store, pre.at)
  /\ ~out[1].expiringSoon

\* C30: a successful extend(additionalSeconds) sets expiresAt to now +
\* additionalSeconds * 1000 (now + 24 h when omitted) and leaves token,
\* user, issuedAt and refreshToken of the stored session as they were; a
\* successful mergeUser(partial) gives user the fields of partial, keeps
\* its other fields, and leaves token, issuedAt, expiresAt and refreshToken
\* as they were; mergeUser on an absent or expired session returns false
\* and leaves the storage unchanged.
FieldOf(u, f) == IF u = Undefined THEN Undefined ELSE Prop(u[1], f)

C30_WitnessExtend ==
  /\ lastOp = "extend"
  /\ ret = "true"
  /\ Prop(store[1], "refreshToken") = Some(<<"refresh-token">>)
  /\ ExpiresAtOf(store) # ExpiresAtOf(pre.store)
  /\ IssuedAtOf(store) < pre.at

\* A mergeUser on an expired record.
C30_WitnessExpired ==
  /\ lastOp = "mergeUser"
  /\ StoredExpired(pre.store, pre.at)
  /\ ret = "false"

\* C26: at any moment at most one periodic-validation interval is
\* registered, and none is re-registered while one is; the teardown of the
\* provider cancels it and no tick runs afterwards; a tick, whether it logs
\* out on an expired record or not, leaves the registration as it is and
\* runs to its end.
C26_TickStep ==
  /\ life = "unmounted" => ~Tick
  /\ Tick => /\ intervals' = intervals
             /\ intervalCleanup' = intervalCleanup
             /\ intervalDep' = intervalDep
             /\ isInitialized' = isInitialized
             /\ lastOp' = "tick"

C26_TimerLifetime ==
  /\ [](intervals \in {0, 1})
  /\ [](intervals = 1 => (life = "mounted" /\ intervalDep = isInitialized))
  /\ [](life = "unmounted" => intervals = 0)
  /\ [][C26_TickStep]_vars

\* A tick that found the record expired and logged out, its interval still
\* registered.
C26_Witness ==
  /\ lastOp = "tick"
  /\ StoredExpired(pre.store, pre.at)
  /\ pre.isAuthenticated
  /\ ~isAuthenticated
  /\ intervals = 1

\* The provider torn down after a tick.
C26_WitnessTeardown ==
  /\ life = "unmounted"
  /\ lastOp = "tick"
  /\ intervals = 0

\* C27 (as claimed): with the bypass off, after every completed controller
\* operation (initialize, login, logout, refresh, periodic tick, 401
\* handling by the API layer) the controller's session is non-null exactly
\* when a record with the same token and expiresAt is stored; memory never
\* says authenticated over an empty store, nor the reverse.
ControllerOps == { "initialize", "login", "logout", "refresh", "tick", "api401" }

\* The operation's state updates are rendered.
Settled == life \in {"mounted", "unmounted"} /\ queued = Null

SameRecord ==
  /\ store # Null
  /\ session # Null
  /\ Prop(store[1], "token") = Prop(session[1], "token")
  /\ Prop(store[1], "expiresAt") = Prop(session[1], "expiresAt")

Coherent ==
  /\ session # Null <=> SameRecord
  /\ session = Null <=> store = Null
  /\ isAuthenticated <=> store # Null

C27_WitnessUnauthorized ==
  /\ ~authDisabled
  /\ lastOp = "api401"
  /\ isAuthenticated
  /\ session # Null
  /\ store = Null

\* C28: with the bypass off, in every state after initialization,
\* isAuthenticated = true iff user is non-null iff session is non-null,
\* whatever the sequence of login, logout, refresh and ticks, a refresh
\* issued while the controller is anonymous and a valid record is stored
\* included.
C28_Original ==
  (~authDisabled /\ isInitialized /\ Settled) =>
    /\ isAuthenticated <=> user # Null
    /\ user # Null <=> session # Null

\* What such a refresh leaves: a session without a user, not authenticated.
C28_SessionWithoutUser ==
  /\ ~authDisabled
  /\ lastOp = "refresh"
  /\ ret = "true"
  /\ ~isAuthenticated
  /\ user = Null
  /\ pre.session = Null
  /\ session # Null
  /\ SameRecord

\* C29: with the bypass off, isSessionExpiring = true implies
\* isAuthenticated = true and a non-null session; it is false right after
\* a login, a logout and a successful refresh, and it becomes true only in
\* a periodic tick that found a valid stored session.
C29_RaisedByTick ==
  (~authDisabled /\ ~isSessionExpiring /\ isSessionExpiring') =>
    (lastOp' = "tick" /\ StoredValid(store, now))

C29_Original ==
  /\ []((~authDisabled /\ isSessionExpiring) =>
          (isAuthenticated /\ session # Null))
  /\ []((~authDisabled /\ Settled
           /\ (lastOp = "logout" \/ (lastOp \in {"login", "refresh"} /\ ret = "true")))
          => ~isSessionExpiring)
  /\ [][C29_RaisedByTick]_vars

\* What a tick does in an anonymous tab over a session another tab stored.
C29_ExpiringWhileAnonymous ==
  /\ ~authDisabled
  /\ lastOp = "tick"
  /\ isSessionExpiring
  /\ ~isAuthenticated
  /\ user = Null
  /\ session = Null

\* C31: extending never shortens a session: for every valid stored session
\* and every additionalSeconds argument, after a successful extend() the
\* stored expiresAt is greater than or equal to its value before the call.
C31_Original ==
  (lastOp = "extend" /\ ret = "true" /\ StoredValid(pre.store, pre.at)) =>
    (store # Null /\ ExpiresAtOf(store) >= ExpiresAtOf(pre.store))

\* What extend() does to a 24-hour session when asked for one hour: the
\* session now ends one hour from the call.
C31_Shortened ==
  /\ lastOp = "extend"
  /\ ret = "true"
  /\ arg[1].additionalTime = Some(60 * 60)
  /\ StoredValid(pre.store, pre.at)
  /\ ExpiresAtOf(store) = pre.at + 3600000
  /\ ExpiresAtOf(store) < ExpiresAtOf(pre.store)

\* C32: with two tabs on one store and every storage get / set / remove an
\* atomic step, no interleaving lets a refresh(), extend() or mergeUser()
\* that tab A started before tab B's logout() removed the record write a
\* session back: once the logout has emptied the store, the call in flight
\* leaves no valid session persisted.
C32_WriteStep ==
  (lastOp = "otherTabLogout" /\ store = Null /\ InFlight) =>
    ~StoredValid(store', now')

C32_Original == [][C32_WriteStep]_vars

\* What the interleaving get (A), remove (B), set (A) leaves: the call
\* returned true over an empty store and a valid session is stored again.
C32_LogoutUndone ==
  /\ lastOp \in {"extend", "mergeUser"}
  /\ ret = "true"
  /\ pre.store = Null
  /\ StoredValid(store, now)

\* C33: createApplication either returns the created application with
\* apiKey and apiKeyId attached, the application then existing with its
\* key, or throws; when it throws, no application without an API key is
\* left on the backend.
C33_Original ==
  lastOp = "createApplication" =>
    /\ ret \in {"returned", "thrown"}
    /\ ret = "returned" =>
         /\ out # Null
         /\ out[1].apiKey # Undefined
         /\ out[1].apiKeyId # Undefined
         /\ [id |-> out[1].id, hasKey |-> TRUE] \in backend.apps
    /\ ret = "thrown" =>
         /\ out = Null
         /\ \A a \in backend.apps : a.hasKey

\* What a failed rollback leaves: the call threw and the application it
\* created is on the backend without a key.
C33_LeftWithoutKey ==
  /\ lastOp = "createApplication"
  /\ ret = "thrown"
  /\ [id |-> backend.nextId - 1, hasKey |-> FALSE] \in backend.apps

====
